---- MODULE Spec2Model ----
(***************************************************************************)
(* The recurrence engine of the task scheduler: GetNextDate and the        *)
(* calculateNextDate* family of internal/usecase/task_usecase.go.          *)
(*                                                                         *)
(* Strings are sequences of one-character strings, so that strings.Split,  *)
(* strconv.Atoi, time.Parse and Time.Format are modelled by what they do.  *)
(* A time.Time is a record [day, tod]: day counts the days since           *)
(* 0001-01-01 (day 0, a Monday) and tod is 0 at midnight UTC and 1 for any *)
(* later instant of that day.                                              *)
(***************************************************************************)
EXTENDS Integers, Sequences, FiniteSets, TLC

(***************************************************************************)
(* Program constants (package entity).                                     *)
(***************************************************************************)
MaxIntervalInDays == 400
MonthsInYear == 12
DaysInWeek == 7
MaxDaysInMonth == 31

(***************************************************************************)
(* Calendar arithmetic of package time.                                    *)
(***************************************************************************)
IsLeap(y) == (y % 4 = 0) /\ ((y % 100 # 0) \/ (y % 400 = 0))

DaysIn(m, y) ==
    IF m = 2 THEN (IF IsLeap(y) THEN 29 ELSE 28)
    ELSE IF m \in {4, 6, 9, 11} THEN 30 ELSE 31

\* days before the first of month m in a non-leap year
DaysBefore == <<0, 31, 59, 90, 120, 151, 181, 212, 243, 273, 304, 334>>

DaysBeforeYear(y) ==
    365 * (y - 1) + ((y - 1) \div 4) - ((y - 1) \div 100) + ((y - 1) \div 400)

\* time.Date(y, m, d, 0, 0, 0, 0, time.UTC) as a day number: month and day
\* are normalised (month 13 is January of y + 1, February 29 of a common
\* year is March 1).
DateDay(y, m, d) ==
    LET yy == y + ((m - 1) \div 12)
        mm == ((m - 1) % 12) + 1
    IN  DaysBeforeYear(yy) + DaysBefore[mm]
          + (IF mm > 2 /\ IsLeap(yy) THEN 1 ELSE 0) + (d - 1)

\* The civil date <<year, month, day>> of the day numbers the model meets,
\* tabulated once: the inverse of DateDay.
CalendarDays ==
    (DateDay(2019, 1, 1)..DateDay(2031, 12, 31))
        \cup (DateDay(9999, 1, 1)..DateDay(10000, 12, 31))

Civil ==
    [n \in CalendarDays |->
        LET y == CHOOSE yy \in ((n \div 366) + 1)..((n \div 365) + 1) :
                     DaysBeforeYear(yy) <= n /\ n < DaysBeforeYear(yy + 1)
            m == CHOOSE mm \in 1..12 :
                     DateDay(y, mm, 1) <= n
                       /\ n < DateDay(y, mm, 1) + DaysIn(mm, y)
        IN  <<y, m, n - DateDay(y, m, 1) + 1>>]

YearOf(n) == Civil[n][1]

MonthOf(n) == Civil[n][2]

DayOf(n) == Civil[n][3]

\* Time.Weekday: 0 is Sunday
Weekday(t) == (t.day + 1) % 7

\* Time.AddDate(years, months, days): the time of day is kept
AddDate(t, years, months, days) ==
    [day |-> DateDay(YearOf(t.day) + years, MonthOf(t.day) + months,
                     DayOf(t.day) + days),
     tod |-> t.tod]

After(t, u) == t.day > u.day \/ (t.day = u.day /\ t.tod > u.tod)

Before(t, u) == t.day < u.day \/ (t.day = u.day /\ t.tod < u.tod)

Equal(t, u) == t.day = u.day /\ t.tod = u.tod

Midnight(n) == [day |-> n, tod |-> 0]

(***************************************************************************)
(* Strings.                                                                *)
(***************************************************************************)
Digits == <<"0", "1", "2", "3", "4", "5", "6", "7", "8", "9">>

IsDigit(c) == \E i \in 1..10 : Digits[i] = c

DigitVal(c) == (CHOOSE i \in 1..10 : Digits[i] = c) - 1

\* the value of the first n characters of s, all decimal digits
RECURSIVE DecPrefix(_, _)
DecPrefix(s, n) ==
    IF n = 0 THEN 0 ELSE 10 * DecPrefix(s, n - 1) + DigitVal(s[n])

DecVal(s) == DecPrefix(s, Len(s))

AllDigits(s) == \A i \in 1..Len(s) : IsDigit(s[i])

RECURSIVE Decimal(_)
Decimal(n) ==
    IF n < 10 THEN <<Digits[n + 1]>>
    ELSE Append(Decimal(n \div 10), Digits[(n % 10) + 1])

\* strconv.Itoa
Itoa(n) == IF n < 0 THEN <<"-">> \o Decimal(0 - n) ELSE Decimal(n)

RECURSIVE Pad(_, _)
Pad(s, w) == IF Len(s) >= w THEN s ELSE Pad(<<"0">> \o s, w)

\* strconv.Atoi: an optional sign, then one or more decimal digits
AtoiOk(s) ==
    LET body == IF s # <<>> /\ s[1] \in {"+", "-"} THEN Tail(s) ELSE s
    IN  body # <<>> /\ AllDigits(body)

Atoi(s) ==
    IF s[1] = "-" THEN 0 - DecVal(Tail(s))
    ELSE IF s[1] = "+" THEN DecVal(Tail(s))
    ELSE DecVal(s)

\* strings.Split(s, sep) for a one-character separator: the pieces between
\* one separator (or the start) and the next (or the end), empty ones kept
Pieces(s, sep) ==
    LET at == {i \in 1..Len(s) : s[i] = sep}
        cut == [j \in 0..(Cardinality(at) + 1) |->
                   IF j = 0 THEN 0
                   ELSE IF j = Cardinality(at) + 1 THEN Len(s) + 1
                   ELSE CHOOSE i \in at :
                            Cardinality({x \in at : x < i}) = j - 1]
    IN  [j \in 1..(Cardinality(at) + 1) |->
            SubSeq(s, cut[j - 1] + 1, cut[j] - 1)]

\* strings.Fields in the place of strings.Split: the empty pieces dropped
SplitFields(s, sep) == SelectSeq(Pieces(s, sep), LAMBDA p : p # <<>>)

Split(s, sep) == Pieces(s, sep)

RECURSIVE Join(_, _)
Join(parts, sep) ==
    IF Len(parts) = 1 THEN parts[1]
    ELSE parts[1] \o <<sep>> \o Join(Tail(parts), sep)

\* time.Parse(entity.DateFormat, s): four digits of year, two of month, two
\* of day and nothing else; the month and the day must exist
ParseOk(s) ==
    /\ Len(s) = 8
    /\ AllDigits(s)
    /\ LET y == DecVal(SubSeq(s, 1, 4))
           m == DecVal(SubSeq(s, 5, 6))
           d == DecVal(SubSeq(s, 7, 8))
       IN  m \in 1..12 /\ d >= 1 /\ d <= DaysIn(m, y)

Parse(s) ==
    Midnight(DateDay(DecVal(SubSeq(s, 1, 4)), DecVal(SubSeq(s, 5, 6)),
                     DecVal(SubSeq(s, 7, 8))))

\* Time.Format(entity.DateFormat)
Format(t) ==
    Pad(Decimal(YearOf(t.day)), 4) \o Pad(Decimal(MonthOf(t.day)), 2)
        \o Pad(Decimal(DayOf(t.day)), 2)

(***************************************************************************)
(* Helpers of the usecase package.                                         *)
(***************************************************************************)
Range(s) == {s[i] : i \in 1..Len(s)}

\* extIntParams: the first element that is no integer, or is out of
\* [min, max], ends the parse with an error
ExtIntOk(params, min, max) ==
    LET strs == Split(params, ",")
    IN  \A i \in 1..Len(strs) :
            AtoiOk(strs[i]) /\ Atoi(strs[i]) >= min /\ Atoi(strs[i]) <= max

ExtIntParams(params) ==
    LET strs == Split(params, ",")
    IN  [i \in 1..Len(strs) |-> Atoi(strs[i])]

ExtIntErr(params, min, max) ==
    LET strs == Split(params, ",")
        k == CHOOSE i \in 1..Len(strs) :
                 /\ ~(AtoiOk(strs[i]) /\ Atoi(strs[i]) >= min
                        /\ Atoi(strs[i]) <= max)
                 /\ \A j \in 1..(i - 1) :
                        AtoiOk(strs[j]) /\ Atoi(strs[j]) >= min
                          /\ Atoi(strs[j]) <= max
    IN  IF AtoiOk(strs[k]) THEN "illegal value" ELSE "strconv.Atoi"

\* the plain order of the integers
DayLessPlain(a, b) == a < b

\* the less function of sortDayParams
DayLess(a, b) ==
    IF a < 0 /\ b < 0 THEN a < b
    ELSE IF a < 0 THEN FALSE
    ELSE IF b < 0 THEN TRUE
    ELSE a < b

\* sort.SliceStable(days, less) with the less function above: the element
\* at i goes after every element less than it and after the earlier elements
\* it is not less than
SortDayParams(days) ==
    LET place(i) ==
            1 + Cardinality({j \in 1..Len(days) :
                                \/ DayLess(days[j], days[i])
                                \/ (~DayLess(days[i], days[j]) /\ j < i)})
    IN  [k \in 1..Len(days) |->
            days[CHOOSE i \in 1..Len(days) : place(i) = k]]

\* sort.Ints
SortInts(s) ==
    LET place(i) ==
            1 + Cardinality({j \in 1..Len(s) :
                                s[j] < s[i] \/ (s[j] = s[i] /\ j < i)})
    IN  [k \in 1..Len(s) |-> s[CHOOSE i \in 1..Len(s) : place(i) = k]]

\* the months searched when the rule names none
DefaultMonths(now, startDate) ==
    LET s == MonthOf(startDate.day)
        n == MonthOf(now.day)
    IN  IF After(startDate, now) THEN <<s, s + 1>> ELSE <<n, n + 1>>

\* one entry of buildDateMap: the days of month m of the year the clock
\* shows, from the first to lastDay.Day()
MonthDays(year, m) ==
    LET currDay == Midnight(DateDay(year, m, 1))
        lastDay == AddDate(currDay, 0, 1, -1)
    IN  [i \in 1..DayOf(lastDay.day) |-> AddDate(currDay, 0, 0, i - 1)]

\* buildDateMap: years[i] is what time.Now().Year() returned in the i-th
\* iteration; a month listed twice keeps the entry built last
BuildDateMap(months, years) ==
    [m \in Range(months) |->
        LET last == CHOOSE i \in 1..Len(months) :
                        months[i] = m
                          /\ \A j \in (i + 1)..Len(months) : months[j] # m
        IN  MonthDays(years[last], m)]

\* the wall clock does not run backwards between two reads
ClockReads(k, lo, hi) ==
    {ys \in [1..k -> lo..hi] : \A i \in 1..(k - 1) : ys[i] <= ys[i + 1]}

\* loop conditions and loop bodies of the four families
\* the loop condition with a candidate on now's own date let through
YearCondAfterOnly(now, currDate) == After(now, currDate)

YearCond(now, currDate) == After(now, currDate) \/ Equal(now, currDate)

\* the loop condition with the tie taken for another round
DayCondNotBefore(now, currDate) == ~Before(now, currDate)

DayCond(now, currDate) == After(now, currDate)

\* the cap taken one too low
ExceedsMaxFrom400(days) == days >= MaxIntervalInDays

ExceedsMax(days) == days > MaxIntervalInDays

\* the search started on now's own date
WeekStartToday(now) == now

WeekStart(now) == AddDate(now, 0, 0, 1)

WeekMatch(currDate, weekdays) ==
    LET day == Weekday(currDate)
    IN  \E i \in 1..Len(weekdays) :
            day = weekdays[i] \/ (day = 0 /\ weekdays[i] = 7)

SkipPair(days, d) == Len(days) <= d - 1

\* the index with the end of the month counted one short
CandidateIndexShort(days, d) == IF d < 0 THEN Len(days) + d ELSE (d - 1) + 1

\* the index expression of the month loop, from Go's 0-based indices
CandidateIndex(days, d) == IF d < 0 THEN Len(days) + d + 1 ELSE (d - 1) + 1

MonthCond(now, currDate) == Before(now, currDate) \/ Equal(now, currDate)

\* the base date parsed before the rule is looked at
PreludeErrDateFirst(date, repeat) ==
    IF ~ParseOk(date) THEN "time.Parse"
    ELSE IF repeat = <<>> THEN "ErrMissingRepeatParams"
    ELSE ""

\* the checks of calculateNextDate before its switch: "" when both pass
PreludeErr(date, repeat) ==
    IF repeat = <<>> THEN "ErrMissingRepeatParams"
    ELSE IF ~ParseOk(date) THEN "time.Parse"
    ELSE ""

\* the sentinel of an empty rule returned for a missing list
ErrNoIntervalAsMissing == "ErrMissingRepeatParams"

\* entity.ErrNoInterval
ErrNoInterval == "ErrNoInterval"

(***************************************************************************)
(* Bounds of the model and the inputs it draws.                            *)
(***************************************************************************)
\* the number of days after the first in a window of consecutive dates
WindowDays == 6
\* the year the wall clock shows when the model starts
FirstClockYear == 2024
\* the number of times the wall clock may pass a new year
MaxClockTicks == 1
\* the number of GetNextDate calls made with the same three arguments
MaxCalls == 2
\* the number of midnights the wall clock may pass while the store is in use
MaxDayTicks == 1
\* the number of usecase calls made on the store
MaxOps == 3
\* the number of AddTask calls made on the store
MaxAdds == 2
\* the number of calls made on the store when UpdateTask and DeleteTask, the
\* token gate or overlapping requests are modelled with them
MaxRequests == 2

DateStr(n) == Pad(Decimal(n), 8)

Dates(S) == {DateStr(n) : n \in S}

Window(first) ==
    {Format(Midnight(Parse(DateStr(first)).day + i)) : i \in 0..WindowDays}

Word(tokens) == Join(tokens, " ")

List(ints) == Join([i \in 1..Len(ints) |-> Itoa(ints[i])], ",")

YearlyRules == {<<"y">>, <<"y", " ", "5">>, <<"y", " ">>}

DailyRules ==
    {Word(<<<<"d">>, Itoa(n)>>) :
        n \in {1, 5, 7, 12, 399, 400, 401, 402, 1000, 0}}
    \cup {<<"d">>, <<"d", " ", "x">>, <<"d", " ", "7", ",", "8">>,
          <<"d", " ", "+", "5">>, <<"d", " ", "5", " ", "6">>,
          <<"d", " ", " ", "5">>}

WeeklyRules ==
    {Word(<<<<"w">>, List(l)>>) :
        l \in {<<1, 3>>, <<7>>, <<3>>, <<5, 2>>, <<1, 2, 3, 4, 5, 6, 7>>,
               <<6, 6>>, <<0>>, <<8>>, <<1, 8>>, <<-1>>}}
    \cup {<<"w">>, <<"w", " ", "x">>, <<"w", " ", "1", ",", ",", "2">>,
          <<"w", " ", "4", " ", "2">>, <<"w", " ">>}

MonthlyRules ==
    {Word(<<<<"m">>, List(l)>>) :
        l \in {<<-1>>, <<-2>>, <<31>>, <<30>>, <<5, -1>>, <<-1, 5>>,
               <<-1, -2, 28>>, <<1>>, <<0>>, <<5, 0>>, <<32>>, <<-3>>}}
    \cup {Word(<<<<"m">>, List(l[1]), List(l[2])>>) :
        l \in {<<<<31>>, <<2, 4>>>>, <<<<5, -1>>, <<1, 2>>>>,
               <<<<15>>, <<12, 1>>>>, <<<<-1>>, <<2, 2>>>>,
               <<<<30, -2>>, <<2, 3, 12>>>>, <<<<1>>, <<13>>>>,
               <<<<1>>, <<0>>>>}}
    \cup {<<"m">>, <<"m", " ", "x">>, <<"m", " ", "1", " ", "x">>,
          <<"m", " ", "1", " ", "2", " ", "3">>}

\* Daily rules with a negative interval: their loop never ends once it is
\* entered, so they are called with a now the first candidate is not before
NegativeRules == {Word(<<<<"d">>, Itoa(n)>>) : n \in {-1, -5}}

OtherRules ==
    {<<>>, <<"x", " ", "1">>, <<"k", " ", "3", "4">>,
     <<"o", "o", "o", "p", "s">>, <<" ", "y">>, <<"y", "y">>, <<"Y">>,
     <<"d", "7">>, <<"w", ",", "1">>, <<"m", "m", " ", "1">>}

BadDates ==
    {<<>>, <<"o", "o", "o", "p", "s">>, Decimal(2024013), DateStr(20240230),
     DateStr(20230229), DateStr(20241301), DateStr(15000156),
     DateStr(20240100), DateStr(20240001), Decimal(202401011),
     <<"2", "0", "2", "4", "-", "1", "-", "1">>,
     <<"+", "2", "0", "2", "4", "0", "1", "1">>}

\* the calls made: <<now, date, repeat>>
Inputs ==
    (Dates({20240126, 20240229, 20250301, 20270601, 20280228, 20280229})
        \X Dates({20200229, 20240229, 20230301, 20240301, 20231231, 20250701})
        \X YearlyRules)
    \cup ((Window(20240226) \cup Dates({20240126, 20240310}))
        \X Dates({20240113, 20240228, 20240305, 20231225, 20240126})
        \X DailyRules)
    \cup (Dates({20231201, 20231220})
        \X Dates({20240113, 20231225, 20240126})
        \X NegativeRules)
    \cup ((Window(20240304) \cup Dates({20241231}))
        \X Dates({20240126, 20250701})
        \X WeeklyRules)
    \cup (Dates({20240126, 20240131, 20240201, 20240229, 20241215,
                 20241231, 20250115, 20250201})
        \X Dates({20240126, 20240305, 20241231, 20250210})
        \X MonthlyRules)
    \cup (Dates({20240126, 20250301})
        \X Dates({20240113, 20250701})
        \X OtherRules)
    \cup (BadDates \X Dates({20240113})
        \X {<<>>, <<"y">>, <<"d", " ", "7">>, <<"x">>})
    \cup (Dates({20240126}) \X BadDates
        \X {<<>>, <<"y">>, <<"d", " ", "7">>, <<"w", " ", "1">>,
            <<"m", " ", "1">>, <<"x">>})

(***************************************************************************)
(* The state: the three arguments of the call, the wall clock, the locals  *)
(* of GetNextDate and calculateNextDate*, and what the call returned.      *)
(***************************************************************************)
VARIABLES
    nowStr, dateStr, repeat,   \* the arguments of GetNextDate
    clock,                     \* the year time.Now() last showed
    calls,                     \* calls made with these arguments so far
    prev,                      \* what the preceding call returned
    pc,                        \* the position of the running call
    now, startDate,            \* the parsed arguments
    parts,                     \* strings.Split(repeat, " ")
    days,                      \* the Daily interval
    weekdays, monthDays, months,
    dateMap,                   \* buildDateMap(months)
    di, mi,                    \* positions of the two range loops
    currDate,                  \* the candidate
    result, err,               \* the returned pair; err = "" is nil
    tasks,                     \* the rows of the scheduler table, by id
    lastId,                    \* the id AUTOINCREMENT gave last
    today,                     \* the day time.Now() last showed
    op,                        \* the usecase call in progress
    ret,                       \* what the last usecase call returned
    password,                  \* the password the usecase was built with
    cookie,                    \* the "token" cookie of the last request
    upd                        \* an UpdateTask call of a second request

args == <<nowStr, dateStr, repeat>>
locals == <<now, startDate, parts, days, weekdays, monthDays, months,
            dateMap, di, mi, currDate>>
gate == <<password, cookie>>
store == <<tasks, lastId, today, op, ret, password, cookie, upd>>
vars == <<nowStr, dateStr, repeat, clock, calls, prev, pc, now, startDate,
          parts, days, weekdays, monthDays, months, dateMap, di, mi,
          currDate, result, err, tasks, lastId, today, op, ret, password,
          cookie, upd>>

\* the zero time.Time is midnight of 0001-01-01
ZeroTime == Midnight(0)

NoCall == [result |-> <<>>, err |-> "", pc |-> "none"]

Fresh ==
    /\ pc = "call"
    /\ now = ZeroTime /\ startDate = ZeroTime /\ currDate = ZeroTime
    /\ parts = <<>> /\ days = 0
    /\ weekdays = <<>> /\ monthDays = <<>> /\ months = <<>>
    /\ dateMap = <<>> /\ di = 0 /\ mi = 0
    /\ result = <<>> /\ err = ""

\* the day the wall clock shows when the store is opened: a day of the last
\* year the clock reaches, so that the year stays the same from then on
Today0 == DateDay(FirstClockYear + MaxClockTicks, 3, 4)

NoTask == [title |-> <<>>, comment |-> <<>>, date |-> <<>>, repeat |-> <<>>]

\* no usecase call in progress
Idle == [kind |-> "none", id |-> 0, task |-> NoTask, arg |-> NoTask]

NoReturn == [n |-> 0, kind |-> "none", id |-> 0, err |-> "", arg |-> NoTask]

\* a request without a "token" cookie
NoCookie == <<>>

\* no second request in progress
NoUpdate == [pc |-> "none", id |-> <<>>, task |-> NoTask, n |-> 0]

\* no password configured, no request made
NoGate == password = "" /\ cookie = NoCookie /\ upd = NoUpdate

\* New on a database file that did not exist: an empty scheduler table
EmptyStore ==
    /\ tasks = <<>>
    /\ lastId = 0
    /\ today = Today0
    /\ op = Idle
    /\ ret = NoReturn

Init ==
    /\ \E in \in Inputs :
           nowStr = in[1] /\ dateStr = in[2] /\ repeat = in[3]
    /\ clock = FirstClockYear
    /\ calls = 1
    /\ prev = NoCall
    /\ Fresh
    /\ EmptyStore
    /\ NoGate

Return(res, e) == pc' = "done" /\ result' = res /\ err' = e

\* GetNextDate up to the switch of calculateNextDate
Enter ==
    /\ pc = "call"
    /\ UNCHANGED <<store, args, clock, calls, prev, days, weekdays, monthDays,
                   months, dateMap, di, mi, currDate>>
    /\ IF ~ParseOk(nowStr)
       THEN Return(<<>>, "time.Parse") /\ UNCHANGED <<now, startDate, parts>>
       ELSE /\ now' = Parse(nowStr)
            /\ IF PreludeErr(dateStr, repeat) # ""
               THEN /\ Return(<<>>, PreludeErr(dateStr, repeat))
                    /\ UNCHANGED <<startDate, parts>>
               ELSE /\ startDate' = Parse(dateStr)
                    /\ parts' = Split(repeat, " ")
                    /\ pc' = "switch"
                    /\ UNCHANGED <<result, err>>

\* case "y": calculateNextDateYear up to its loop
StartYear ==
    /\ pc = "switch" /\ parts[1] = <<"y">>
    /\ currDate' = AddDate(startDate, 1, 0, 0)
    /\ pc' = "year"
    /\ UNCHANGED <<store, args, clock, calls, prev, now, startDate, parts, days,
                   weekdays, monthDays, months, dateMap, di, mi, result, err>>

\* one evaluation of the loop condition of calculateNextDateYear
YearLoop ==
    /\ pc = "year"
    /\ IF YearCond(now, currDate)
       THEN /\ currDate' = AddDate(currDate, 1, 0, 0)
            /\ UNCHANGED <<pc, result, err>>
       ELSE Return(Format(currDate), "") /\ UNCHANGED currDate
    /\ UNCHANGED <<store, args, clock, calls, prev, now, startDate, parts, days,
                   weekdays, monthDays, months, dateMap, di, mi>>

\* case "d": calculateNextDateDay up to its loop
StartDay ==
    /\ pc = "switch" /\ parts[1] = <<"d">>
    /\ UNCHANGED <<store, args, clock, calls, prev, now, startDate, parts,
                   weekdays, monthDays, months, dateMap, di, mi>>
    /\ IF Len(parts) = 1
       THEN Return(<<>>, ErrNoInterval) /\ UNCHANGED <<days, currDate>>
       ELSE IF ~AtoiOk(parts[2])
       THEN Return(<<>>, "strconv.Atoi") /\ UNCHANGED <<days, currDate>>
       ELSE LET n == Atoi(parts[2])
            IN  /\ days' = n
                /\ IF ExceedsMax(n)
                   THEN Return(<<>>, "ErrMaxIntervalExceeded")
                          /\ UNCHANGED currDate
                   ELSE /\ currDate' = AddDate(startDate, 0, 0, n)
                        /\ pc' = "day"
                        /\ UNCHANGED <<result, err>>

\* one evaluation of the loop condition of calculateNextDateDay
DayLoop ==
    /\ pc = "day"
    /\ IF DayCond(now, currDate)
       THEN /\ currDate' = AddDate(currDate, 0, 0, days)
            /\ UNCHANGED <<pc, result, err>>
       ELSE Return(Format(currDate), "") /\ UNCHANGED currDate
    /\ UNCHANGED <<store, args, clock, calls, prev, now, startDate, parts, days,
                   weekdays, monthDays, months, dateMap, di, mi>>

\* case "w": calculateNextDateWeek up to its loop
StartWeek ==
    /\ pc = "switch" /\ parts[1] = <<"w">>
    /\ UNCHANGED <<store, args, clock, calls, prev, now, startDate, parts, days,
                   monthDays, months, dateMap, di, mi>>
    /\ IF Len(parts) = 1
       THEN Return(<<>>, ErrNoInterval) /\ UNCHANGED <<weekdays, currDate>>
       ELSE IF ~ExtIntOk(parts[2], 1, DaysInWeek)
       THEN /\ Return(<<>>, ExtIntErr(parts[2], 1, DaysInWeek))
            /\ UNCHANGED <<weekdays, currDate>>
       ELSE /\ weekdays' = ExtIntParams(parts[2])
            /\ currDate' = WeekStart(now)
            /\ pc' = "week"
            /\ UNCHANGED <<result, err>>

\* one iteration of the loop of calculateNextDateWeek
WeekLoop ==
    /\ pc = "week"
    /\ IF WeekMatch(currDate, weekdays)
       THEN Return(Format(currDate), "") /\ UNCHANGED currDate
       ELSE /\ currDate' = AddDate(currDate, 0, 0, 1)
            /\ UNCHANGED <<pc, result, err>>
    /\ UNCHANGED <<store, args, clock, calls, prev, now, startDate, parts, days,
                   weekdays, monthDays, months, dateMap, di, mi>>

\* case "m": calculateNextDateMonth up to its loops; buildDateMap reads
\* the clock once for every month
StartMonth ==
    /\ pc = "switch" /\ parts[1] = <<"m">>
    /\ UNCHANGED <<store, args, calls, prev, now, startDate, parts, days, weekdays,
                   currDate>>
    /\ IF Len(parts) = 1
       THEN /\ Return(<<>>, ErrNoInterval)
            /\ UNCHANGED <<clock, monthDays, months, dateMap, di, mi>>
       ELSE IF ~ExtIntOk(parts[2], -2, MaxDaysInMonth)
       THEN /\ Return(<<>>, ExtIntErr(parts[2], -2, MaxDaysInMonth))
            /\ UNCHANGED <<clock, monthDays, months, dateMap, di, mi>>
       ELSE /\ monthDays' = SortDayParams(ExtIntParams(parts[2]))
            /\ IF Len(parts) = 3 /\ ~ExtIntOk(parts[3], 1, MonthsInYear)
               THEN /\ Return(<<>>, ExtIntErr(parts[3], 1, MonthsInYear))
                    /\ UNCHANGED <<clock, months, dateMap, di, mi>>
               ELSE LET ms == IF Len(parts) = 3
                              THEN SortInts(ExtIntParams(parts[3]))
                              ELSE DefaultMonths(now, startDate)
                    IN  /\ months' = ms
                        /\ \E years \in ClockReads(Len(ms), clock,
                                           FirstClockYear + MaxClockTicks) :
                               /\ dateMap' = BuildDateMap(ms, years)
                               /\ clock' = years[Len(ms)]
                        /\ di' = 1 /\ mi' = 1
                        /\ pc' = "month"
                        /\ UNCHANGED <<result, err>>

\* the next pair of the two range loops
NextPair ==
    IF mi < Len(months) THEN di' = di /\ mi' = mi + 1
    ELSE di' = di + 1 /\ mi' = 1

\* the month loops up to the candidate of the pair (monthDays[di],
\* months[mi]): the pair is skipped, or indexed, or the index is out of range
MonthPick ==
    /\ pc = "month"
    /\ UNCHANGED <<store, args, clock, calls, prev, now, startDate, parts, days,
                   weekdays, monthDays, months, dateMap>>
    /\ IF di > Len(monthDays)
       THEN Return(<<>>, "ErrDateCalculation") /\ UNCHANGED <<di, mi, currDate>>
       ELSE LET d == monthDays[di]
                ds == dateMap[months[mi]]
            IN  IF SkipPair(ds, d)
                THEN NextPair /\ UNCHANGED <<pc, currDate, result, err>>
                ELSE IF CandidateIndex(ds, d) \notin 1..Len(ds)
                THEN /\ pc' = "panic"
                     /\ err' = "index out of range"
                     /\ UNCHANGED <<di, mi, currDate, result>>
                ELSE /\ currDate' = ds[CandidateIndex(ds, d)]
                     /\ pc' = "cmp"
                     /\ UNCHANGED <<di, mi, result, err>>

\* the comparison of the candidate with now
MonthCmp ==
    /\ pc = "cmp"
    /\ UNCHANGED <<store, args, clock, calls, prev, now, startDate, parts, days,
                   weekdays, monthDays, months, dateMap, currDate>>
    /\ IF MonthCond(now, currDate)
       THEN Return(Format(currDate), "") /\ UNCHANGED <<di, mi>>
       ELSE NextPair /\ pc' = "month" /\ UNCHANGED <<result, err>>

\* default: of the switch
Unsupported ==
    /\ pc = "switch" /\ parts[1] \notin {<<"y">>, <<"d">>, <<"w">>, <<"m">>}
    /\ Return(<<>>, "ErrUnsupportedRepeatFormat")
    /\ UNCHANGED <<store, args, clock, calls, prev, locals>>

\* the same request is made again, later
CallAgain ==
    /\ pc \in {"done", "panic"}
    /\ calls < MaxCalls
    /\ calls' = calls + 1
    /\ prev' = [result |-> result, err |-> err, pc |-> pc]
    /\ pc' = "call"
    /\ now' = ZeroTime /\ startDate' = ZeroTime /\ currDate' = ZeroTime
    /\ parts' = <<>> /\ days' = 0
    /\ weekdays' = <<>> /\ monthDays' = <<>> /\ months' = <<>>
    /\ dateMap' = <<>> /\ di' = 0 /\ mi' = 0
    /\ result' = <<>> /\ err' = ""
    /\ UNCHANGED <<store, args, clock>>

\* a step of the running call
CallStep ==
    \/ Enter
    \/ StartYear
    \/ YearLoop
    \/ StartDay
    \/ DayLoop
    \/ StartWeek
    \/ WeekLoop
    \/ StartMonth
    \/ MonthPick
    \/ MonthCmp
    \/ Unsupported

Next == CallStep \/ CallAgain

Spec == Init /\ [][Next]_vars

\* the date a call returned is the now of the next call, the base date and
\* the rule staying as they are
Reapply ==
    /\ pc = "done" /\ err = ""
    /\ calls < MaxCalls
    /\ calls' = calls + 1
    /\ prev' = [result |-> result, err |-> err, pc |-> pc]
    /\ nowStr' = result
    /\ pc' = "call"
    /\ now' = ZeroTime /\ startDate' = ZeroTime /\ currDate' = ZeroTime
    /\ parts' = <<>> /\ days' = 0
    /\ weekdays' = <<>> /\ monthDays' = <<>> /\ months' = <<>>
    /\ dateMap' = <<>> /\ di' = 0 /\ mi' = 0
    /\ result' = <<>> /\ err' = ""
    /\ UNCHANGED <<store, dateStr, repeat, clock>>

ReapplyNext == CallStep \/ Reapply

ReapplySpec == Init /\ [][ReapplyNext]_vars

\* a loop that can make another iteration makes it: the goroutine of the
\* request is scheduled until the handler returns
FairSpec ==
    /\ Spec
    /\ WF_vars(YearLoop)
    /\ WF_vars(DayLoop)
    /\ WF_vars(WeekLoop)
    /\ WF_vars(MonthPick)
    /\ WF_vars(MonthCmp)

(***************************************************************************)
(* The task store: AddTask, DoTask, UpdateTask and DeleteTask of the       *)
(* usecase on the scheduler table of the SQLite repository.  The requests  *)
(* are served one at a time; the server runs in UTC, so that Truncate(24h) *)
(* is midnight of the day.                                                 *)
(***************************************************************************)
\* the date string of the day n days after the store was opened
Day(n) == Format(Midnight(Today0 + n))

Task(title, date, rule) ==
    [title |-> title, comment |-> <<>>, date |-> date, repeat |-> rule]

\* the tasks submitted to AddTask
AddInputs ==
    {Task(<<"a">>, Day(in[1]), in[2]) :
        in \in {<<-1, <<>>>>, <<0, <<>>>>, <<1, <<>>>>,
                <<-1, <<"y">>>>, <<1, <<"y">>>>,
                <<-1, <<"d", " ", "1">>>>, <<0, <<"d", " ", "1">>>>,
                <<16, <<"d", " ", "3">>>>,
                <<0, <<"d", " ", "0">>>>, <<-1, <<"d", " ", "0">>>>,
                <<-1, <<"w", " ", "2">>>>, <<0, <<"w", " ", "3">>>>,
                <<300, <<"w", " ", "2">>>>,
                <<-1, <<"m", " ", "5">>>>, <<16, <<"m", " ", "5">>>>,
                <<-1, <<"m", " ", "0">>>>, <<-1, <<"x">>>>,
                <<-1, <<"m", " ", "1", "5", " ", "1">>>>,
                <<0, <<"m", " ", "4", " ", "3">>>>}}
    \cup {Task(<<"b">>, <<>>, <<>>), Task(<<"b">>, <<>>, <<"d", " ", "1">>),
          Task(<<>>, Day(0), <<>>), Task(<<"b">>, DateStr(20250230), <<>>),
          Task(<<"b">>, <<"o", "o", "p", "s">>, <<"y">>),
          Task(<<"a">>, DateStr(99991231), <<"y">>)}

\* the ids submitted to DoTask
DoIds == {<<"1">>, <<"2">>, <<"3">>, <<>>, <<"x">>}

\* the ids and tasks submitted to UpdateTask
UpdateInputs ==
    {<<<<"1">>, task>> :
        task \in {Task(<<"c">>, Day(1), <<>>),
                  Task(<<"c">>, <<>>, <<>>),
                  Task(<<>>, Day(0), <<>>),
                  Task(<<"c">>, Day(0), <<"d", " ", "1">>),
                  Task(<<"c">>, Day(0), <<"x">>),
                  Task(<<"c">>, DateStr(20250230), <<>>),
                  Task(<<"c">>, Day(0),
                       <<"m", " ", "3", "1", " ", "2", ",", "4">>)}}
    \cup {<<id, Task(<<"c">>, Day(1), <<>>)>> :
             id \in {<<>>, <<"x">>, <<"3">>}}
    \cup {<<<<"2">>, Task(<<"c">>, Day(0), <<"d", " ", "1">>)>>}

\* the last day the wall clock reaches
LastDay == Today0 + MaxDayTicks

\* INSERT INTO scheduler: the row gets the next id
InsertTask(rows, id, task) ==
    [i \in DOMAIN rows \cup {id} |-> IF i = id THEN task ELSE rows[i]]

\* an UPDATE without its WHERE clause
UpdateEveryTask(rows, id, task) == [i \in DOMAIN rows |-> task]

\* UPDATE scheduler SET ... WHERE id = :id
UpdateTask(rows, id, task) ==
    [i \in DOMAIN rows |-> IF i = id THEN task ELSE rows[i]]

\* DELETE FROM scheduler WHERE id = ?
DeleteTask(rows, id) == [i \in DOMAIN rows \ {id} |-> rows[i]]

\* the usecase call returns: arg is the task that was submitted to it
Returned(kind, id, e, arg) ==
    /\ ret' = [n |-> ret.n + 1, kind |-> kind, id |-> id, err |-> e,
               arg |-> arg]
    /\ op' = Idle

Finished(kind, id, e) == Returned(kind, id, e, NoTask)

\* the locals of a finished calculateNextDate call are gone
ResetCalc ==
    /\ pc' = "idle"
    /\ dateStr' = <<>> /\ repeat' = <<>>
    /\ now' = ZeroTime /\ startDate' = ZeroTime /\ currDate' = ZeroTime
    /\ parts' = <<>> /\ days' = 0
    /\ weekdays' = <<>> /\ monthDays' = <<>> /\ months' = <<>>
    /\ dateMap' = <<>> /\ di' = 0 /\ mi' = 0
    /\ result' = <<>> /\ err' = ""
    /\ UNCHANGED <<nowStr, clock, calls, prev>>

calc == <<nowStr, dateStr, repeat, clock, calls, prev, pc, locals, result,
          err>>

\* calculateNextDate(t, date, rule) up to its switch
Calc(t, date, rule) ==
    /\ now' = t /\ dateStr' = date /\ repeat' = rule
    /\ IF PreludeErr(date, rule) # ""
       THEN /\ Return(<<>>, PreludeErr(date, rule))
            /\ UNCHANGED <<startDate, parts>>
       ELSE /\ startDate' = Parse(date)
            /\ parts' = Split(rule, " ")
            /\ pc' = "switch"
            /\ UNCHANGED <<result, err>>
    /\ UNCHANGED <<nowStr, clock, calls, prev, days, weekdays, monthDays,
                   months, dateMap, di, mi, currDate>>

\* the end of AddTask: a date before today is replaced by nextDate
AddedDate(task, date, nextDate, t) ==
    IF Before(date, Midnight(t)) THEN [task EXCEPT !.date = nextDate]
    ELSE task

\* AddTask up to its call of calculateNextDate, and to its end for a task
\* that does not repeat; time.Now() is read up to three times
AddTaskStart ==
    /\ op = Idle /\ pc = "idle"
    /\ ret.n < MaxOps /\ lastId < MaxAdds
    /\ \E in \in AddInputs, reads \in ClockReads(3, today, LastDay) :
           LET task == IF in.date = <<>>
                       THEN [in EXCEPT !.date = Format(Midnight(reads[1]))]
                       ELSE in
           IN  IF in.title = <<>>
               THEN /\ Returned("add", 0, "ErrEmptyTitle", in)
                    /\ UNCHANGED <<tasks, lastId, today, calc>>
               ELSE IF ~ParseOk(task.date)
               THEN /\ Returned("add", 0, "time.Parse", in)
                    /\ UNCHANGED <<tasks, lastId, today, calc>>
               ELSE IF task.repeat = <<>>
               THEN /\ tasks' = InsertTask(tasks, lastId + 1,
                                    AddedDate(task, Parse(task.date),
                                        Format(Midnight(reads[2])), reads[3]))
                    /\ lastId' = lastId + 1
                    /\ today' = reads[3]
                    /\ Returned("add", lastId + 1, "", in)
                    /\ UNCHANGED calc
               ELSE /\ Calc(Midnight(reads[2]), task.date, task.repeat)
                    /\ op' = [kind |-> "add", id |-> 0, task |-> task, arg |-> in]
                    /\ today' = reads[2]
                    /\ UNCHANGED <<tasks, lastId, ret>>

\* AddTask from the return of calculateNextDate
AddTaskFinish ==
    /\ op.kind = "add" /\ pc = "done"
    /\ IF err # ""
       THEN /\ Returned("add", 0, err, op.arg)
            /\ UNCHANGED <<tasks, lastId, today>>
       ELSE \E t \in today..LastDay :
                /\ tasks' = InsertTask(tasks, lastId + 1,
                                AddedDate(op.task, Parse(op.task.date),
                                          result, t))
                /\ lastId' = lastId + 1
                /\ today' = t
                /\ Returned("add", lastId + 1, "", op.arg)
    /\ ResetCalc

\* DoTask up to its call of calculateNextDate, and to its end for a task
\* that does not repeat
DoTaskStart ==
    /\ op = Idle /\ pc = "idle"
    /\ ret.n < MaxOps
    /\ \E id \in DoIds, t \in today..LastDay :
           IF ~AtoiOk(id)
           THEN /\ Finished("do", 0, "strconv.ParseInt")
                /\ UNCHANGED <<tasks, lastId, today, calc>>
           ELSE IF Atoi(id) \notin DOMAIN tasks
           THEN /\ Finished("do", Atoi(id), "ErrTaskNotFound")
                /\ UNCHANGED <<tasks, lastId, today, calc>>
           ELSE IF tasks[Atoi(id)].repeat = <<>>
           THEN /\ tasks' = DeleteTask(tasks, Atoi(id))
                /\ Finished("do", Atoi(id), "")
                /\ UNCHANGED <<lastId, today, calc>>
           ELSE /\ Calc(Midnight(t), tasks[Atoi(id)].date,
                        tasks[Atoi(id)].repeat)
                /\ op' = [kind |-> "do", id |-> Atoi(id),
                          task |-> tasks[Atoi(id)], arg |-> NoTask]
                /\ today' = t
                /\ UNCHANGED <<tasks, lastId, ret>>

\* DoTask from the return of calculateNextDate
DoTaskFinish ==
    /\ op.kind = "do" /\ pc = "done"
    /\ IF err # ""
       THEN Finished("do", op.id, err) /\ UNCHANGED tasks
       ELSE /\ tasks' = UpdateTask(tasks, op.id,
                                   [op.task EXCEPT !.date = result])
            /\ Finished("do", op.id, "")
    /\ ResetCalc
    /\ UNCHANGED <<lastId, today>>

\* the checks of UpdateTask before its call of calculateNextDate: "" when
\* all of them pass
UpdateTaskErr(rows, id, task) ==
    IF id = <<>> THEN "ErrEmptyID"
    ELSE IF ~AtoiOk(id) THEN "strconv.ParseInt"
    ELSE IF Atoi(id) \notin DOMAIN rows THEN "ErrTaskNotFound"
    ELSE IF task.title = <<>> THEN "ErrEmptyTitle"
    ELSE IF ~ParseOk(task.date) THEN "ErrInvalidDate"
    ELSE ""

\* time.Now() on day t, not truncated: an instant after midnight
Now(t) == [day |-> t, tod |-> 1]

\* UpdateTask up to its call of calculateNextDate
UpdateTaskStart ==
    /\ op = Idle /\ pc = "idle"
    /\ ret.n < MaxOps
    /\ \E in \in UpdateInputs, t \in today..LastDay :
           LET id == in[1]
               task == in[2]
           IN  IF UpdateTaskErr(tasks, id, task) # ""
               THEN /\ Returned("update", IF AtoiOk(id) THEN Atoi(id) ELSE 0,
                                 UpdateTaskErr(tasks, id, task), task)
                    /\ UNCHANGED <<tasks, lastId, today, calc>>
               ELSE /\ Calc(Now(t), task.date, task.repeat)
                    /\ op' = [kind |-> "update", id |-> Atoi(id),
                              task |-> task, arg |-> task]
                    /\ today' = t
                    /\ UNCHANGED <<tasks, lastId, ret>>

\* UpdateTask with the row written before the error of calculateNextDate is
\* looked at
UpdateTaskFinishWriteFirst ==
    /\ op.kind = "update" /\ pc = "done"
    /\ tasks' = UpdateTask(tasks, op.id, op.task)
    /\ Returned("update", op.id, IF op.task.repeat # <<>> THEN err ELSE "",
                op.arg)
    /\ ResetCalc
    /\ UNCHANGED <<lastId, today>>

\* UpdateTask from the return of calculateNextDate: the date it returned is
\* dropped, and its error too when the task has no rule
UpdateTaskFinish ==
    /\ op.kind = "update" /\ pc = "done"
    /\ IF op.task.repeat # <<>> /\ err # ""
       THEN Returned("update", op.id, err, op.arg) /\ UNCHANGED tasks
       ELSE /\ tasks' = UpdateTask(tasks, op.id, op.task)
            /\ Returned("update", op.id, "", op.arg)
    /\ ResetCalc
    /\ UNCHANGED <<lastId, today>>

\* DeleteTask of the usecase
DeleteTaskUsecase ==
    /\ op = Idle /\ pc = "idle"
    /\ ret.n < MaxOps
    /\ \E id \in DoIds :
           IF ~AtoiOk(id)
           THEN Finished("delete", 0, "strconv.ParseInt") /\ UNCHANGED tasks
           ELSE IF Atoi(id) \notin DOMAIN tasks
           THEN /\ Finished("delete", Atoi(id), "ErrTaskNotFound")
                /\ UNCHANGED tasks
           ELSE /\ tasks' = DeleteTask(tasks, Atoi(id))
                /\ Finished("delete", Atoi(id), "")
    /\ UNCHANGED <<lastId, today, calc>>

\* a panic in calculateNextDate ends the request
OpPanic ==
    /\ op.kind # "none" /\ pc = "panic"
    /\ Finished(op.kind, op.id, "panic")
    /\ ResetCalc
    /\ UNCHANGED <<tasks, lastId, today>>

\* a step of calculateNextDate from its switch on
CalcStep ==
    \/ StartYear
    \/ YearLoop
    \/ StartDay
    \/ DayLoop
    \/ StartWeek
    \/ WeekLoop
    \/ StartMonth
    \/ MonthPick
    \/ MonthCmp
    \/ Unsupported

\* New of the repository and NewTaskUsecase: no call of calculateNextDate is
\* running and the table is empty
Opened ==
    /\ nowStr = <<>> /\ dateStr = <<>> /\ repeat = <<>>
    /\ clock = FirstClockYear + MaxClockTicks
    /\ calls = 1
    /\ prev = NoCall
    /\ pc = "idle"
    /\ now = ZeroTime /\ startDate = ZeroTime /\ currDate = ZeroTime
    /\ parts = <<>> /\ days = 0
    /\ weekdays = <<>> /\ monthDays = <<>> /\ months = <<>>
    /\ dateMap = <<>> /\ di = 0 /\ mi = 0
    /\ result = <<>> /\ err = ""
    /\ EmptyStore

StoreInit == Opened /\ NoGate

\* a step of a usecase call made without the HTTP layer, and alone
Usecase(step) == step /\ UNCHANGED <<password, cookie, upd>>

StoreNext ==
    \/ Usecase(AddTaskStart)
    \/ Usecase(AddTaskFinish)
    \/ Usecase(DoTaskStart)
    \/ Usecase(DoTaskFinish)
    \/ Usecase(OpPanic)
    \/ CalcStep

StoreSpec == StoreInit /\ [][StoreNext]_vars

\* the start of one of the calls of a short run
Request(step) == ret.n < MaxRequests /\ Usecase(step)

\* the four operations that write to the store
CrudNext ==
    \/ Request(AddTaskStart)
    \/ Usecase(AddTaskFinish)
    \/ Request(DoTaskStart)
    \/ Usecase(DoTaskFinish)
    \/ Request(UpdateTaskStart)
    \/ Usecase(UpdateTaskFinish)
    \/ Request(DeleteTaskUsecase)
    \/ Usecase(OpPanic)
    \/ CalcStep

CrudSpec == StoreInit /\ [][CrudNext]_vars


(***************************************************************************)
(* The HTTP layer: the routes of the task handlers behind the token        *)
(* middleware.                                                             *)
(***************************************************************************)
\* cfg.JWTSecret
SecretKey == "k"

\* the values of cfg.Password: none, and one
Passwords == {"", "p"}

\* JWT.CreateToken: a token without claims, signed HS512 with the key
CreateToken(key) == [alg |-> "HS512", sig |-> key]

\* the "token" cookies of the requests: none, the token Login gives, a token
\* signed with another key, a token that is not signed, and a value that is
\* no token
Cookies ==
    {NoCookie, <<CreateToken(SecretKey)>>, <<CreateToken("other")>>,
     <<[alg |-> "none", sig |-> ""]>>, <<[alg |-> "", sig |-> ""]>>}

\* JWT.ValidateToken: jwt.Parse with the secret key as the HMAC key
JWTValidateToken(token) ==
    IF token.alg \in {"HS256", "HS384", "HS512"} /\ token.sig = SecretKey
    THEN ""
    ELSE "jwt.Parse"

\* ValidateToken without the call of the JWT validator
ValidateTokenUnchecked(token) ==
    IF password = "" THEN "ErrAuthDisabled" ELSE ""

\* ValidateToken of the usecase
ValidateToken(token) ==
    IF password = "" THEN "ErrAuthDisabled"
    ELSE IF JWTValidateToken(token) # "" THEN "jwt.ValidateToken"
    ELSE ""

ShouldCheckToken == password # ""

\* tc.sendError(w, r, entity.ErrAuthenticationRequired): the handler is not
\* called
AuthenticationRequired(kind) ==
    /\ op = Idle /\ pc = "idle"
    /\ Returned(kind, 0, "ErrAuthenticationRequired", NoTask)
    /\ UNCHANGED <<tasks, lastId, today, calc>>

\* ValidateTokenMiddleware(next): the cookie is read only when a password is
\* configured
ValidateTokenMiddleware(kind, next) ==
    /\ UNCHANGED <<password, upd>>
    /\ IF ~ShouldCheckToken
       THEN next /\ cookie' = NoCookie
       ELSE \E c \in Cookies :
                /\ cookie' = c
                /\ IF c = NoCookie THEN AuthenticationRequired(kind)
                   ELSE IF ValidateToken(c[1]) # ""
                   THEN AuthenticationRequired(kind)
                   ELSE next

\* GetTask of the usecase
GetTask ==
    /\ op = Idle /\ pc = "idle"
    /\ \E id \in DoIds :
           IF ~AtoiOk(id) THEN Finished("get", 0, "strconv.ParseInt")
           ELSE IF Atoi(id) \notin DOMAIN tasks
           THEN Finished("get", Atoi(id), "ErrTaskNotFound")
           ELSE Returned("get", Atoi(id), "", tasks[Atoi(id)])
    /\ UNCHANGED <<tasks, lastId, today, calc>>

\* GetTasks of the usecase, asked without a search string
GetTasks ==
    /\ op = Idle /\ pc = "idle"
    /\ Finished("list", 0, "")
    /\ UNCHANGED <<tasks, lastId, today, calc>>

\* a route of the API router with the middleware before its handler
Route(kind, handler) ==
    ret.n < MaxRequests /\ ValidateTokenMiddleware(kind, handler)

ApiInit ==
    /\ Opened
    /\ password \in Passwords
    /\ cookie = NoCookie /\ upd = NoUpdate

ApiNext ==
    \/ Route("add", AddTaskStart)
    \/ Route("list", GetTasks)
    \/ Route("do", DoTaskStart)
    \/ Route("delete", DeleteTaskUsecase)
    \/ Route("update", UpdateTaskStart)
    \/ Route("get", GetTask)
    \/ Usecase(AddTaskFinish)
    \/ Usecase(DoTaskFinish)
    \/ Usecase(UpdateTaskFinish)
    \/ Usecase(OpPanic)
    \/ CalcStep

ApiSpec == ApiInit /\ [][ApiNext]_vars


(***************************************************************************)
(* Two requests at once: net/http serves every request in a goroutine of   *)
(* its own, and the usecase takes no lock and opens no transaction.  An    *)
(* UpdateTask call runs while a DoTask call for the same id is between its *)
(* repo.GetTask and its repo.UpdateTask.                                   *)
(***************************************************************************)
\* the tasks of the second request: without a rule, so that its call of
\* calculateNextDate returns before the switch and its error is dropped
RaceInputs == {[Task(<<"c">>, Day(1), <<>>) EXCEPT !.comment = <<"u">>]}

\* UpdateTask of the second request up to the return of repo.GetTask
UpdateRaceStart ==
    /\ op.kind = "do" /\ upd.pc = "none"
    /\ \E task \in RaceInputs :
           /\ UpdateTaskErr(tasks, Itoa(op.id), task) = ""
           /\ upd' = [pc |-> "checked", id |-> Itoa(op.id), task |-> task,
                      n |-> ret.n + 1]
    /\ UNCHANGED <<tasks, lastId, today, op, ret, password, cookie, calc>>

\* UpdateTask of the second request from there to its end: the row is
\* written and nil is returned
UpdateRaceWrite ==
    /\ upd.pc = "checked"
    /\ tasks' = UpdateTask(tasks, Atoi(upd.id), upd.task)
    /\ upd' = [upd EXCEPT !.pc = "done"]
    /\ UNCHANGED <<lastId, today, op, ret, password, cookie, calc>>

RaceNext ==
    \/ Request(AddTaskStart)
    \/ Usecase(AddTaskFinish)
    \/ Request(DoTaskStart)
    \/ Usecase(DoTaskFinish)
    \/ Usecase(OpPanic)
    \/ CalcStep
    \/ UpdateRaceStart
    \/ UpdateRaceWrite

RaceSpec == StoreInit /\ [][RaceNext]_vars

(***************************************************************************)
(* The claims.                                                             *)
(***************************************************************************)
Family(f) == parts # <<>> /\ parts[1] = <<f>>

Max(a, b) == IF a > b THEN a ELSE b

\* C1: for well-formed dates the rule "y" returns baseDate advanced by k
\* whole years, for the smallest k >= 1 that puts it strictly after now's
\* date.
C1_YearlyWholeYears ==
    (pc = "done" /\ Family("y")) =>
        \E k \in 1..(Max(0, YearOf(now.day) - YearOf(startDate.day)) + 2) :
            /\ AddDate(startDate, k, 0, 0).day > now.day
            /\ \A j \in 1..(k - 1) : AddDate(startDate, j, 0, 0).day <= now.day
            /\ result = Format(AddDate(startDate, k, 0, 0))
            /\ err = ""

\* C2: for n in [1, 400] the rule "d n" returns baseDate + k*n days for the
\* smallest k >= 1 whose date is not before now's date, so the result is
\* now's date when some baseDate + k*n falls on it.
C2_DailyNotBeforeNow ==
    (pc = "done" /\ Family("d") /\ days \in 1..400) =>
        /\ err = ""
        /\ \E k \in 1..(Max(0, now.day - startDate.day) + 1) :
               /\ startDate.day + k * days >= now.day
               /\ k > 1 => startDate.day + (k - 1) * days < now.day
               /\ result = Format(Midnight(startDate.day + k * days))
        /\ (now.day > startDate.day /\ (now.day - startDate.day) % days = 0)
               => result = nowStr

\* a Daily call whose result is now's own date, reached after the loop ran
C2_Witness ==
    /\ pc = "done" /\ Family("d") /\ days \in 2..400 /\ err = ""
    /\ result = nowStr
    /\ now.day - startDate.day >= 2 * days

\* ISO weekday of a day number: 1 is Monday, 7 is Sunday
IsoWeekday(n) == (n % 7) + 1

\* C3: for a list of weekdays in [1, 7] the rule "w list" returns the
\* earliest date from now + 1 day to now + 7 days whose ISO weekday is
\* listed: a date fixed by now and the list, whatever baseDate is, and never
\* now's own date.
C3_WeeklyNextListedDay ==
    (pc = "done" /\ Family("w") /\ Len(parts) >= 2
        /\ ExtIntOk(parts[2], 1, 7)) =>
        LET listed == Range(ExtIntParams(parts[2]))
        IN  /\ err = ""
            /\ result # nowStr
            /\ \E d \in (now.day + 1)..(now.day + 7) :
                   /\ IsoWeekday(d) \in listed
                   /\ \A e \in (now.day + 1)..(d - 1) : IsoWeekday(e) \notin listed
                   /\ result = Format(Midnight(d))

\* a Weekly call on a day that is itself listed: the result is a week later
C3_Witness ==
    /\ pc = "done" /\ Family("w") /\ err = ""
    /\ IsoWeekday(now.day) \in Range(weekdays)
    /\ result = Format(Midnight(now.day + 7))

\* the place of a day value in the order of the Monthly search: positive
\* values ascending, then -2, then -1
DayRank(d) == IF d > 0 THEN d ELSE 100 + d

\* the date a day value stands for in the month materialised as listed
Resolved(d, listed) ==
    IF d > 0 THEN listed[1].day + (d - 1) ELSE listed[1].day + Len(listed) + d

\* the pairs (day value, month) of the search that have a candidate on or
\* after now
Hits ==
    {h \in Range(monthDays) \X Range(months) :
        /\ h[1] <= Len(dateMap[h[2]])
        /\ Resolved(h[1], dateMap[h[2]]) >= now.day}

Precedes(g, h) ==
    DayRank(g[1]) < DayRank(h[1]) \/ (g[1] = h[1] /\ g[2] <= h[2])

\* C4: the Monthly search enumerates its candidates day-major, positive day
\* values ascending before -2 before -1 and months ascending, and returns
\* the first candidate on or after now; with no such candidate it returns
\* DateCalculationError.
C4_MonthlyFirstEnumerated ==
    (pc = "done" /\ Family("m") /\ months # <<>>) =>
        IF Hits = {}
        THEN err = "ErrDateCalculation" /\ result = <<>>
        ELSE \E h \in Hits :
                 /\ \A g \in Hits : Precedes(h, g)
                 /\ result = Format(Midnight(Resolved(h[1], dateMap[h[2]])))
                 /\ err = ""

\* a Monthly call that returns a candidate although a later pair of the
\* enumeration holds an earlier date on or after now
C4_Witness ==
    /\ pc = "done" /\ Family("m") /\ months # <<>> /\ err = ""
    /\ \E g \in Hits :
           Resolved(g[1], dateMap[g[2]]) < currDate.day

\* C5: in a month of L days a positive day value d is the d-th of the month
\* when d <= L and gives no candidate when d > L, -1 is the L-th and -2 the
\* (L-1)-th; the candidate lies in the month it was asked for.
C5_MonthlyDayResolution ==
    [][(pc = "month" /\ di <= Len(monthDays) /\ monthDays[di] # 0) =>
          LET d == monthDays[di]
              first == dateMap[months[mi]][1].day
              y == YearOf(first)
              m == MonthOf(first)
              L == DaysIn(m, y)
          IN  /\ DayOf(first) = 1
              /\ d > L => pc' = "month" /\ currDate' = currDate
              /\ d \in 1..L =>
                     pc' = "cmp" /\ currDate' = Midnight(DateDay(y, m, d))
              /\ d < 0 =>
                     pc' = "cmp" /\ currDate' = Midnight(DateDay(y, m, L + 1 + d))
              /\ pc' = "cmp" =>
                     YearOf(currDate'.day) = y /\ MonthOf(currDate'.day) = m
    ]_vars

\* the last day of a 28-day February is the candidate of -1
C5_Witness ==
    /\ pc = "cmp" /\ monthDays[di] = -1
    /\ MonthOf(currDate.day) = 2 /\ DayOf(currDate.day) = 28

\* C6: a Monthly rule without a month list searches the months m and m + 1,
\* m being the month of baseDate when baseDate is after now and the month of
\* now otherwise; for m = 12 the second month is the January that follows
\* the December searched.
C6_MonthlyDefaultMonths ==
    (pc \in {"month", "cmp"} /\ Len(parts) = 2) =>
        LET m == IF startDate.day > now.day THEN MonthOf(startDate.day)
                 ELSE MonthOf(now.day)
        IN  /\ months = <<m, m + 1>>
            /\ DOMAIN dateMap = {m, m + 1}
            /\ m = 12 =>
                   /\ MonthOf(dateMap[12][1].day) = 12
                   /\ MonthOf(dateMap[13][1].day) = 1
                   /\ YearOf(dateMap[13][1].day)
                          = YearOf(dateMap[12][1].day) + 1

\* C7: two calls with the same three arguments return the same date or the
\* same error, whenever they run.
C7_SameArgumentsSameResult ==
    (pc = "done" /\ prev.pc = "done") =>
        result = prev.result /\ err = prev.err

\* C8: a call never panics.
C8_NeverPanics == pc # "panic"

\* C9: every call ends: a search loop that was entered is left, with a date or
\* an error, after finitely many iterations.
C9_LoopsExit ==
    (pc \in {"year", "day", "week", "month", "cmp"})
        ~> (pc \in {"done", "panic"})

\* C10: "d n" fails with MaxIntervalExceeded and returns no date for every
\* integer n > 400, and returns a date for every n in [1, 400].
C10_DailyCap ==
    (pc = "done" /\ Family("d") /\ Len(parts) >= 2 /\ AtoiOk(parts[2])) =>
        LET n == Atoi(parts[2])
        IN  /\ n > 400 => err = "ErrMaxIntervalExceeded" /\ result = <<>>
            /\ n \in 1..400 => err = "" /\ ParseOk(result)

\* "d 400" returned a date
C10_Witness ==
    /\ pc = "done" /\ repeat = <<"d", " ", "4", "0", "0">>
    /\ err = "" /\ ParseOk(result)

\* the elements of a comma-separated list are all integers of S
ElementsIn(list, S) ==
    \A i \in 1..Len(Pieces(list, ",")) :
        AtoiOk(Pieces(list, ",")[i]) /\ Atoi(Pieces(list, ",")[i]) \in S

\* C11: a Daily rule whose interval token is an integer below 1 is rejected
\* with an error and never yields a date.
C11_DailyLowerBound ==
    (pc = "done" /\ Family("d") /\ Len(parts) >= 2 /\ AtoiOk(parts[2])
        /\ Atoi(parts[2]) < 1) =>
        err # "" /\ result = <<>>

\* the lists of a Weekly or Monthly rule are in the ranges of the rule format
ListsInRange ==
    IF Family("w") THEN ElementsIn(parts[2], 1..7)
    ELSE /\ ElementsIn(parts[2], {-2, -1} \cup (1..31))
         /\ Len(parts) = 3 => ElementsIn(parts[3], 1..12)

\* C12: a Weekly rule with an element outside [1, 7], and a Monthly rule
\* with a day element outside {-2, -1} and [1, 31] or a month element
\* outside [1, 12], is rejected with an error: only a rule whose every
\* element is in range is accepted.
C12_ListRangeValidation ==
    (pc \notin {"call", "switch"} /\ (Family("w") \/ Family("m"))
        /\ Len(parts) >= 2 /\ ~ListsInRange) =>
        pc = "done" /\ err # "" /\ result = <<>>

\* C13: a Monthly rule with no parameter token, or with more than two, is
\* rejected with an error.
C13_MonthlyTokenCount ==
    (pc \notin {"call", "switch"} /\ Family("m") /\ Len(parts) \notin {2, 3}) =>
        pc = "done" /\ err # "" /\ result = <<>>

\* C14: with a well-formed now, an empty rule returns MissingRepeatParameters
\* and no date whatever the base date string is: the rule is looked at
\* before the base date is parsed and before the dispatch.
C14_EmptyRule ==
    (pc # "call" /\ ParseOk(nowStr) /\ repeat = <<>>) =>
        pc = "done" /\ err = "ErrMissingRepeatParams" /\ result = <<>>

\* an empty rule with a malformed base date was answered
C14_Witness ==
    /\ pc = "done" /\ repeat = <<>> /\ ParseOk(nowStr) /\ ~ParseOk(dateStr)
    /\ err = "ErrMissingRepeatParams"

\* C15: with well-formed dates the rules "d", "w" and "m", a family letter
\* with no list after it, fail with NoIntervalSpecified.
C15_MissingParameterList ==
    (pc # "call" /\ ParseOk(nowStr) /\ ParseOk(dateStr)
        /\ repeat \in {<<"d">>, <<"w">>, <<"m">>}) =>
        /\ pc \in {"switch", "done"}
        /\ pc = "done" => err = "ErrNoInterval" /\ result = <<>>

\* "m" alone was answered
C15_Witness ==
    /\ pc = "done" /\ repeat = <<"m">> /\ ParseOk(nowStr) /\ ParseOk(dateStr)
    /\ err = "ErrNoInterval"

\* the text of a rule up to its first space
FirstToken(s) ==
    IF \E i \in 1..Len(s) : s[i] = " "
    THEN SubSeq(s, 1, (CHOOSE i \in 1..Len(s) :
                          s[i] = " " /\ \A j \in 1..(i - 1) : s[j] # " ") - 1)
    ELSE s

\* C16: with well-formed dates a non-empty rule whose first space-separated
\* token is none of "y", "d", "w", "m" fails with UnsupportedRepeatFormat,
\* whatever follows the token.
C16_UnknownFamily ==
    (pc # "call" /\ ParseOk(nowStr) /\ ParseOk(dateStr) /\ repeat # <<>>
        /\ FirstToken(repeat) \notin {<<"y">>, <<"d">>, <<"w">>, <<"m">>}) =>
        /\ pc \in {"switch", "done"}
        /\ pc = "done" => err = "ErrUnsupportedRepeatFormat" /\ result = <<>>

\* a rule that starts with a space was answered
C16_Witness ==
    /\ pc = "done" /\ repeat = <<" ", "y">> /\ ParseOk(nowStr)
    /\ ParseOk(dateStr) /\ err = "ErrUnsupportedRepeatFormat"

\* C17: with the base date held fixed, the date a Daily rule returned is
\* returned again when it is given as now, and the date a Yearly rule
\* returned gives a strictly later date when it is given as now.
C17_ReapplicationAsymmetry ==
    (pc = "done" /\ prev.pc = "done") =>
        /\ Family("d") => err = "" /\ result = prev.result
        /\ Family("y") =>
               err = "" /\ Parse(result).day > Parse(prev.result).day

\* a Daily date, found after the loop ran, was given back for itself
C17_Witness ==
    /\ pc = "done" /\ prev.pc = "done" /\ Family("d") /\ days >= 1
    /\ result = prev.result /\ now.day - startDate.day >= 2 * days

\* the step on which a DoTask call returns without an error
DoTaskDone == ret'.n = ret.n + 1 /\ ret'.kind = "do" /\ ret'.err = ""

\* C18: after a successful DoTask on a task with a non-empty rule the task is
\* still stored and its date is strictly later than before the call, so that
\* the date increases strictly over any sequence of DoTask calls.
C18_CompletionAdvances ==
    [][(DoTaskDone /\ ret'.id \in DOMAIN tasks
          /\ tasks[ret'.id].repeat # <<>>) =>
          /\ ret'.id \in DOMAIN tasks'
          /\ Parse(tasks'[ret'.id].date).day > Parse(tasks[ret'.id].date).day
    ]_vars

\* C19: a successful DoTask on a task with an empty rule removes that task
\* and no other; on a task with a non-empty rule it removes nothing and
\* changes the date of that task only; every other task stays as it is.
C19_DoTaskEffect ==
    [][DoTaskDone =>
          LET id == ret'.id
          IN  /\ id \in DOMAIN tasks
              /\ \A j \in DOMAIN tasks \ {id} :
                     j \in DOMAIN tasks' /\ tasks'[j] = tasks[j]
              /\ IF tasks[id].repeat = <<>>
                 THEN DOMAIN tasks' = DOMAIN tasks \ {id}
                 ELSE /\ DOMAIN tasks' = DOMAIN tasks
                      /\ tasks'[id].title = tasks[id].title
                      /\ tasks'[id].comment = tasks[id].comment
                      /\ tasks'[id].repeat = tasks[id].repeat
    ]_vars

\* a repeating task was completed while another task was stored, and its
\* date moved
C19_Witness ==
    /\ ret.kind = "do" /\ ret.err = "" /\ DOMAIN tasks = {1, 2}
    /\ ret.id = 1 /\ tasks[1].repeat = <<"y">>
    /\ Parse(tasks[1].date).day > Today0 + 300

\* the step on which an AddTask call returns without an error
AddTaskDone == ret'.n = ret.n + 1 /\ ret'.kind = "add" /\ ret'.err = ""

\* C20: a successful AddTask stores the submitted date as it is when it is
\* today or later, an empty date being today; a date before today is
\* replaced by today's date when the rule is empty and by what ComputeNext
\* returns for today, the date and the rule otherwise; the stored date is
\* never before today.
C20_AddTaskDateRule ==
    [][AddTaskDone =>
          LET sub == ret'.arg
              stored == tasks'[ret'.id]
              d == IF sub.date = <<>> THEN today' ELSE Parse(sub.date).day
          IN  /\ d >= today' =>
                     stored.date = IF sub.date = <<>>
                                   THEN Format(Midnight(today'))
                                   ELSE sub.date
              /\ (d < today' /\ sub.repeat = <<>>) =>
                     stored.date = Format(Midnight(today'))
              /\ (d < today' /\ sub.repeat # <<>>) =>
                     stored.date = result /\ now = Midnight(today')
              /\ Parse(stored.date).day >= today'
    ]_vars

\* C23: the date an accepted Monthly rule returns is the earliest date on or
\* after now among the rule's day values resolved in the searched months: no
\* other such date lies between now and the result.
C23_MonthlyEarliest ==
    (pc = "done" /\ Family("m") /\ months # <<>> /\ err = "") =>
        /\ ParseOk(result)
        /\ Parse(result).day >= now.day
        /\ \E h \in Hits :
               result = Format(Midnight(Resolved(h[1], dateMap[h[2]])))
        /\ \A g \in Hits :
               Resolved(g[1], dateMap[g[2]]) >= Parse(result).day

\* C24: the date returned for a Yearly rule has the month and the day of the
\* month of baseDate; for a baseDate of 29 February it is 29 February
\* whenever the year of the result is a leap year, and 28 February or
\* 1 March otherwise.
C24_YearlyAnniversary ==
    (pc = "done" /\ Family("y") /\ err = "") =>
        LET r == Parse(result).day
            b == startDate.day
            md(n) == <<MonthOf(n), DayOf(n)>>
        IN  /\ ParseOk(result)
            /\ IF md(b) # <<2, 29>> THEN md(r) = md(b)
               ELSE IF IsLeap(YearOf(r)) THEN md(r) = <<2, 29>>
               ELSE md(r) \in {<<2, 28>>, <<3, 1>>}


\* a call of UpdateTask returns
UpdateTaskDone == ret'.n = ret.n + 1 /\ ret'.kind = "update"

\* C21: UpdateTask for an existing id with a non-empty title and an empty
\* date does not fail: it stores the submitted task with the current date as
\* its date.
C21_UpdateEmptyDate ==
    [][(UpdateTaskDone /\ ret'.id \in DOMAIN tasks
          /\ ret'.arg.title # <<>> /\ ret'.arg.date = <<>>) =>
          /\ ret'.err = ""
          /\ ret'.id \in DOMAIN tasks'
          /\ \E t \in today..LastDay :
                 tasks'[ret'.id]
                     = [ret'.arg EXCEPT !.date = Format(Midnight(t))]
    ]_vars


\* an 8-digit YYYYMMDD string that names a day of the calendar
WellFormedDate(s) ==
    /\ Len(s) = 8
    /\ \A i \in 1..8 : \E k \in 1..10 : s[i] = Digits[k]
    /\ LET y == DecVal(SubSeq(s, 1, 4))
           m == DecVal(SubSeq(s, 5, 6))
           d == DecVal(SubSeq(s, 7, 8))
       IN  m \in 1..12 /\ d \in 1..DaysIn(m, y)

\* C25: in every state reached from the empty store by AddTask, UpdateTask,
\* DoTask and DeleteTask calls, every stored task has a non-empty title and
\* a date that is a well-formed 8-digit YYYYMMDD calendar date.
C25_StoreInvariant ==
    \A id \in DOMAIN tasks :
        tasks[id].title # <<>> /\ WellFormedDate(tasks[id].date)


\* a call of one of the four operations returns an error
OperationFailed ==
    /\ ret'.n = ret.n + 1
    /\ ret'.kind \in {"add", "update", "do", "delete"}
    /\ ret'.err \notin {"", "panic"}

\* C27: when AddTask, UpdateTask, DoTask or DeleteTask returns an error, of
\* its own validation or of calculateNextDate, the stored tasks and all
\* their fields are as they were before the call.
C27_FailureKeepsStore ==
    [][OperationFailed => tasks' = tasks /\ lastId' = lastId]_vars

\* UpdateTask of a stored task was refused with the DateCalculationError of
\* calculateNextDate
C27_Witness ==
    /\ ret.kind = "update" /\ ret.err = "ErrDateCalculation"
    /\ ret.id \in DOMAIN tasks
    /\ tasks[ret.id] # ret.arg


\* the cookie carries a token the validator accepts
Accepted(c) == c # NoCookie /\ JWTValidateToken(c[1]) = ""

\* a request for one of the task handlers arrives and is answered or taken up
Arrives == op = Idle /\ pc = "idle" /\ (op' # Idle \/ ret'.n = ret.n + 1)

AuthRefused == ret'.n = ret.n + 1 /\ ret'.err = "ErrAuthenticationRequired"

\* C22: with a password configured the handlers for add, list, get, update,
\* delete and done run only for a request whose "token" cookie the validator
\* accepts; a request without such a cookie is answered with the
\* authentication-required error, no handler runs and the store is as it
\* was.  With no password configured every request reaches its handler.
C22_TokenGate ==
    [][Arrives =>
          IF password # "" /\ ~Accepted(cookie')
          THEN /\ AuthRefused
               /\ op' = Idle /\ pc' = "idle"
               /\ tasks' = tasks /\ lastId' = lastId
          ELSE ~AuthRefused
    ]_vars

\* a request with a token signed by another key was refused on a store that
\* holds a task
C22_Witness ==
    /\ password # "" /\ cookie = <<CreateToken("other")>>
    /\ ret.err = "ErrAuthenticationRequired"
    /\ tasks # <<>>


\* C26: when a DoTask call and an UpdateTask call for the same id overlap and
\* both succeed, the title, the comment and the rule stored at the end are
\* those UpdateTask wrote: DoTask does not put back the values it read
\* before UpdateTask committed.
C26_NoLostUpdate ==
    (upd.pc = "done" /\ op = Idle /\ ret.n = upd.n /\ ret.kind = "do"
        /\ ret.err = "") =>
        /\ ret.id \in DOMAIN tasks
        /\ tasks[ret.id].title = upd.task.title
        /\ tasks[ret.id].comment = upd.task.comment
        /\ tasks[ret.id].repeat = upd.task.repeat

====
